---- MODULE Spec2Model ----
(***************************************************************************)
(* Model of the block synchronizer's PeerList                              *)
(* (node/src/components/block_synchronizer/peer_list.rs): a ledger of peer *)
(* qualities, a "keep fresh" timestamp, and the selection of peers.        *)
(***************************************************************************)
EXTENDS Integers, Sequences, FiniteSets, TLC

\* ------------------------------------------------------------------ bounds

\* Number of distinct node identifiers the callers may name.
NumPeers == 2
\* Largest max_simultaneous_peers a PeerList is constructed with.
MaxSimultaneous == 2
\* Largest peer_refresh_interval (in clock units) a PeerList is constructed with.
MaxInterval == 1
\* Largest reading of the clock: above MaxInterval, so that every interval elapses.
MaxTime == 3

\* ------------------------------------------------------------------- types

\* NodeId: opaque and totally ordered (BTreeMap key); modelled as 1..NumPeers.
NodeIds == 1..NumPeers

\* Option<NodeId>::None
None == 0

\* enum PeerQuality
PeerQuality == {"Unknown", "Unreliable", "Reliable", "Dishonest"}

\* enum PeersStatus
PeersStatus == {"Sufficient", "Insufficient", "Stale"}

VARIABLES
    peer_list,               \* BTreeMap<NodeId, PeerQuality>: a function on a subset of NodeIds
    keep_fresh,              \* Timestamp of the last refresh check
    max_simultaneous_peers,  \* u32, fixed at construction
    peer_refresh_interval,   \* TimeDiff, fixed at construction
    now,                     \* the reading Timestamp::now() gives
    op,                      \* the last call: its name, its peer argument, the
                             \* quality that peer had before the call, and the
                             \* entries the call removed
    ret_status,              \* the PeersStatus the last call returned, or "None"
    ret_peers,               \* the Vec<NodeId> the last call returned, or << >>
    last_stale               \* history: the clock readings at which need_peers returned
                             \* Stale the last time (.last) and the time before (.prev),
                             \* -1 for none

vars == <<peer_list, keep_fresh, max_simultaneous_peers, peer_refresh_interval,
          now, op, ret_status, ret_peers, last_stale>>

\* ----------------------------------------------------------------- helpers

\* BTreeMap::insert
Insert(pl, k, q) == [x \in (DOMAIN pl) \cup {k} |-> IF x = k THEN q ELSE pl[x]]

\* The quality of a peer, "Absent" when the map has no entry for it.
QualityOf(pl, k) == IF k \in DOMAIN pl THEN pl[k] ELSE "Absent"

\* BTreeMap::iter().filter(..): the keys whose quality is in qs, in ascending order.
RECURSIVE SortedSeq(_)
SortedSeq(S) ==
    IF S = {} THEN << >>
    ELSE LET m == CHOOSE x \in S : \A y \in S : x <= y
         IN <<m>> \o SortedSeq(S \ {m})

FilterKeys(pl, qs) == SortedSeq({k \in DOMAIN pl : pl[k] \in qs})

\* Timestamp::saturating_diff
SaturatingDiff(a, b) == IF a > b THEN a - b ELSE 0

\* usize::saturating_sub
SaturatingSub(a, b) == IF a > b THEN a - b ELSE 0

Range(s) == {s[i] : i \in 1..Len(s)}

\* The entries a step removes from the map.
Removed ==
    LET gone == (DOMAIN peer_list) \ (DOMAIN peer_list')
    IN [k \in gone |-> peer_list[k]]

\* The record of a call: its name, its peer argument, the quality that peer had
\* before the call, and the entries the call removed.
Call(name, peer) ==
    [name |-> name, peer |-> peer, before |-> QualityOf(peer_list, peer),
     removed |-> Removed]

\* -------------------------------------------------------------------- Init

\* PeerList::new
Init ==
    /\ peer_list = << >>
    /\ now = 0
    /\ keep_fresh = now
    /\ max_simultaneous_peers \in 0..MaxSimultaneous
    /\ peer_refresh_interval \in 0..MaxInterval
    /\ op = [name |-> "new", peer |-> None, before |-> "Absent", removed |-> << >>]
    /\ ret_status = "None"
    /\ ret_peers = << >>
    /\ last_stale = [prev |-> -1, last |-> -1]

\* ----------------------------------------------------------------- actions

\* The clock advances.
Tick ==
    /\ now < MaxTime
    /\ now' = now + 1
    /\ UNCHANGED <<peer_list, keep_fresh, max_simultaneous_peers,
                   peer_refresh_interval, op, ret_status, ret_peers, last_stale>>

\* register_peer without the contains_key early return: a present peer is reset.
register_peer_overwrite(peer) ==
    /\ ret_status' = "None"
    /\ ret_peers' = << >>
    /\ peer_list' = Insert(peer_list, peer, "Unknown")
    /\ keep_fresh' = now
    /\ UNCHANGED <<max_simultaneous_peers, peer_refresh_interval, now, last_stale>>
    /\ op' = Call("register_peer", peer)

\* PeerList::register_peer
\* register_peer that puts a present honest peer back at Unknown.
register_peer_restarts(peer) ==
    /\ ret_status' = "None"
    /\ ret_peers' = << >>
    /\ IF peer \in DOMAIN peer_list /\ peer_list[peer] = "Dishonest"
       THEN UNCHANGED <<peer_list, keep_fresh>>
       ELSE /\ peer_list' = Insert(peer_list, peer, "Unknown")
            /\ keep_fresh' = IF peer \in DOMAIN peer_list THEN keep_fresh ELSE now
    /\ UNCHANGED <<max_simultaneous_peers, peer_refresh_interval, now, last_stale>>
    /\ op' = Call("register_peer", peer)

\* register_peer that inserts without touching keep_fresh.
register_peer_no_reset(peer) ==
    /\ ret_status' = "None"
    /\ ret_peers' = << >>
    /\ IF peer \in DOMAIN peer_list
       THEN UNCHANGED <<peer_list, keep_fresh>>
       ELSE /\ peer_list' = Insert(peer_list, peer, "Unknown")
            /\ keep_fresh' = keep_fresh
    /\ UNCHANGED <<max_simultaneous_peers, peer_refresh_interval, now, last_stale>>
    /\ op' = Call("register_peer", peer)

register_peer(peer) ==
    /\ ret_status' = "None"
    /\ ret_peers' = << >>
    /\ IF peer \in DOMAIN peer_list
       THEN UNCHANGED <<peer_list, keep_fresh>>
       ELSE /\ peer_list' = Insert(peer_list, peer, "Unknown")
            /\ keep_fresh' = now
    /\ UNCHANGED <<max_simultaneous_peers, peer_refresh_interval, now, last_stale>>
    /\ op' = Call("register_peer", peer)

\* dishonest_peers with the filter inverted: the keys that are not Dishonest.
dishonest_list_inverted(pl) == FilterKeys(pl, {"Unknown", "Unreliable", "Reliable"})

\* PeerList::dishonest_peers: the Dishonest keys, in the map's order.
dishonest_list(pl) == FilterKeys(pl, {"Dishonest"})

dishonest_peers ==
    /\ ret_status' = "None"
    /\ ret_peers' = dishonest_list(peer_list)
    /\ UNCHANGED <<peer_list, keep_fresh, max_simultaneous_peers,
                   peer_refresh_interval, now, last_stale>>
    /\ op' = Call("dishonest_peers", None)

\* flush that forgets the honest peers only and keeps the disqualifications.
flush_keeps_dishonest ==
    /\ ret_status' = "None"
    /\ ret_peers' = << >>
    /\ peer_list' = [k \in {x \in DOMAIN peer_list : peer_list[x] = "Dishonest"} |-> "Dishonest"]
    /\ UNCHANGED <<keep_fresh, max_simultaneous_peers, peer_refresh_interval,
                   now, last_stale>>
    /\ op' = Call("flush", None)

\* PeerList::flush
flush ==
    /\ ret_status' = "None"
    /\ ret_peers' = << >>
    /\ peer_list' = << >>
    /\ UNCHANGED <<keep_fresh, max_simultaneous_peers, peer_refresh_interval,
                   now, last_stale>>
    /\ op' = Call("flush", None)

\* flush_dishonest_peers that retains only the proven peers (Unknown ones go too).
retain_honest_drops_unknown(pl) ==
    LET kept == {k \in DOMAIN pl : pl[k] \in {"Unreliable", "Reliable"}} IN [x \in kept |-> pl[x]]

\* PeerList::flush_dishonest_peers: retain(|_, v| *v != PeerQuality::Dishonest)
retain_honest(pl) ==
    LET kept == {k \in DOMAIN pl : pl[k] # "Dishonest"} IN [x \in kept |-> pl[x]]

flush_dishonest_peers ==
    /\ ret_status' = "None"
    /\ ret_peers' = << >>
    /\ peer_list' = retain_honest(peer_list)
    /\ UNCHANGED <<keep_fresh, max_simultaneous_peers, peer_refresh_interval,
                   now, last_stale>>
    /\ op' = Call("flush_dishonest_peers", None)

\* disqualify_peer that only marks a peer it already has (no insertion).
disqualify_entry_present_only(pl, peer) ==
    IF peer # None /\ peer \in DOMAIN pl THEN Insert(pl, peer, "Dishonest") ELSE pl

\* PeerList::disqualify_peer: the map after the call.
disqualify_entry(pl, peer) ==
    IF peer # None THEN Insert(pl, peer, "Dishonest") ELSE pl

disqualify_peer(peer) ==
    /\ ret_status' = "None"
    /\ ret_peers' = << >>
    /\ peer_list' = disqualify_entry(peer_list, peer)
    /\ UNCHANGED <<keep_fresh, max_simultaneous_peers, peer_refresh_interval,
                   now, last_stale>>
    /\ op' = Call("disqualify_peer", peer)

\* promote_peer whose Unknown arm goes straight to Reliable.
promote_entry_skips_rung(pl, peer) ==
    IF peer = None THEN pl
    ELSE IF peer \notin DOMAIN pl THEN Insert(pl, peer, "Unknown")
    ELSE CASE pl[peer] = "Dishonest"  -> pl
           [] pl[peer] = "Unknown"    -> Insert(pl, peer, "Reliable")
           [] pl[peer] = "Unreliable" -> Insert(pl, peer, "Reliable")
           [] pl[peer] = "Reliable"   -> pl

\* PeerList::promote_peer: the map after the call.
\* promote that starts an absent peer one rung up, at Unreliable.
promote_entry_absent_unreliable(pl, peer) ==
    IF peer = None THEN pl
    ELSE IF peer \notin DOMAIN pl THEN Insert(pl, peer, "Unreliable")
    ELSE CASE pl[peer] = "Dishonest"  -> pl
           [] pl[peer] = "Unknown"    -> Insert(pl, peer, "Unreliable")
           [] pl[peer] = "Unreliable" -> Insert(pl, peer, "Reliable")
           [] pl[peer] = "Reliable"   -> pl

promote_entry(pl, peer) ==
    IF peer = None THEN pl
    ELSE IF peer \notin DOMAIN pl THEN Insert(pl, peer, "Unknown")
    ELSE CASE pl[peer] = "Dishonest"  -> pl
           [] pl[peer] = "Unknown"    -> Insert(pl, peer, "Unreliable")
           [] pl[peer] = "Unreliable" -> Insert(pl, peer, "Reliable")
           [] pl[peer] = "Reliable"   -> pl

\* promote_peer that counts as a refresh check: it resets keep_fresh.
promote_peer_resets_stamp(peer) ==
    /\ ret_status' = "None"
    /\ ret_peers' = << >>
    /\ peer_list' = promote_entry(peer_list, peer)
    /\ keep_fresh' = now
    /\ UNCHANGED <<max_simultaneous_peers, peer_refresh_interval,
                   now, last_stale>>
    /\ op' = Call("promote_peer", peer)

promote_peer(peer) ==
    /\ ret_status' = "None"
    /\ ret_peers' = << >>
    /\ peer_list' = promote_entry(peer_list, peer)
    /\ UNCHANGED <<keep_fresh, max_simultaneous_peers, peer_refresh_interval,
                   now, last_stale>>
    /\ op' = Call("promote_peer", peer)

\* demote_peer with the Dishonest arm grouped with Unreliable instead of Unknown.
demote_entry_dishonest_falls(pl, peer) ==
    IF peer = None THEN pl
    ELSE IF peer \notin DOMAIN pl THEN pl
    ELSE CASE pl[peer] = "Unknown" -> pl
           [] pl[peer] \in {"Dishonest", "Unreliable"} -> Insert(pl, peer, "Unknown")
           [] pl[peer] = "Reliable"   -> Insert(pl, peer, "Unreliable")

\* PeerList::demote_peer: the map after the call.
\* demote that forgets a peer already at the bottom rung.
demote_entry_drops_unknown(pl, peer) ==
    IF peer = None \/ peer \notin DOMAIN pl THEN pl
    ELSE CASE pl[peer] = "Dishonest"  -> pl
           [] pl[peer] = "Unknown"    -> [k \in (DOMAIN pl) \ {peer} |-> pl[k]]
           [] pl[peer] = "Unreliable" -> Insert(pl, peer, "Unknown")
           [] pl[peer] = "Reliable"   -> Insert(pl, peer, "Unreliable")

demote_entry(pl, peer) ==
    IF peer = None THEN pl
    ELSE IF peer \notin DOMAIN pl THEN pl
    ELSE CASE pl[peer] \in {"Dishonest", "Unknown"} -> pl
           [] pl[peer] = "Unreliable" -> Insert(pl, peer, "Unknown")
           [] pl[peer] = "Reliable"   -> Insert(pl, peer, "Unreliable")

demote_peer(peer) ==
    /\ ret_status' = "None"
    /\ ret_peers' = << >>
    /\ peer_list' = demote_entry(peer_list, peer)
    /\ UNCHANGED <<keep_fresh, max_simultaneous_peers, peer_refresh_interval,
                   now, last_stale>>
    /\ op' = Call("demote_peer", peer)

\* need_peers that counts Unreliable peers toward the goal as well.
need_peers_outcome_counts_unreliable(pl, kf, interval, goal, t1, t2) ==
    IF DOMAIN pl = {}
    THEN [status |-> "Insufficient", keep_fresh |-> kf]
    ELSE IF SaturatingDiff(t1, kf) > interval
         THEN LET count == Cardinality({k \in DOMAIN pl : pl[k] # "Dishonest"})
              IN IF count < goal
                 THEN [status |-> "Stale", keep_fresh |-> t2]
                 ELSE [status |-> "Sufficient", keep_fresh |-> t2]
         ELSE [status |-> "Sufficient", keep_fresh |-> kf]

\* need_peers without the is_empty early return.
need_peers_outcome_no_empty_check(pl, kf, interval, goal, t1, t2) ==
    IF SaturatingDiff(t1, kf) > interval
    THEN LET count == Cardinality({k \in DOMAIN pl : pl[k] \in {"Reliable", "Unknown"}})
         IN IF count < goal
            THEN [status |-> "Stale", keep_fresh |-> t2]
            ELSE [status |-> "Sufficient", keep_fresh |-> t2]
    ELSE [status |-> "Sufficient", keep_fresh |-> kf]

\* need_peers that resets keep_fresh only after the Stale return is passed.
need_peers_outcome_stale_keeps_stamp(pl, kf, interval, goal, t1, t2) ==
    IF DOMAIN pl = {}
    THEN [status |-> "Insufficient", keep_fresh |-> kf]
    ELSE IF SaturatingDiff(t1, kf) > interval
         THEN LET count == Cardinality({k \in DOMAIN pl : pl[k] \in {"Reliable", "Unknown"}})
              IN IF count < goal
                 THEN [status |-> "Stale", keep_fresh |-> kf]
                 ELSE [status |-> "Sufficient", keep_fresh |-> t2]
         ELSE [status |-> "Sufficient", keep_fresh |-> kf]

\* need_peers with the operands of saturating_diff swapped.
need_peers_outcome_diff_swapped(pl, kf, interval, goal, t1, t2) ==
    IF DOMAIN pl = {}
    THEN [status |-> "Insufficient", keep_fresh |-> kf]
    ELSE IF SaturatingDiff(kf, t1) > interval
         THEN LET count == Cardinality({k \in DOMAIN pl : pl[k] \in {"Reliable", "Unknown"}})
              IN IF count < goal
                 THEN [status |-> "Stale", keep_fresh |-> t2]
                 ELSE [status |-> "Sufficient", keep_fresh |-> t2]
         ELSE [status |-> "Sufficient", keep_fresh |-> kf]

\* PeerList::need_peers: the status returned and the keep_fresh left behind, for a
\* call whose first clock reading (line 134) is t1 and whose second (line 135) is t2.
\* need_peers that resets keep_fresh on every call with a non-empty ledger.
need_peers_outcome_always_resets(pl, kf, interval, goal, t1, t2) ==
    IF DOMAIN pl = {}
    THEN [status |-> "Insufficient", keep_fresh |-> kf]
    ELSE IF SaturatingDiff(t1, kf) > interval
         THEN LET count == Cardinality({k \in DOMAIN pl : pl[k] \in {"Reliable", "Unknown"}})
              IN IF count < goal
                 THEN [status |-> "Stale", keep_fresh |-> t2]
                 ELSE [status |-> "Sufficient", keep_fresh |-> t2]
         ELSE [status |-> "Sufficient", keep_fresh |-> t2]

need_peers_outcome(pl, kf, interval, goal, t1, t2) ==
    IF DOMAIN pl = {}
    THEN [status |-> "Insufficient", keep_fresh |-> kf]
    ELSE IF SaturatingDiff(t1, kf) > interval
         THEN LET count == Cardinality({k \in DOMAIN pl : pl[k] \in {"Reliable", "Unknown"}})
              IN IF count < goal
                 THEN [status |-> "Stale", keep_fresh |-> t2]
                 ELSE [status |-> "Sufficient", keep_fresh |-> t2]
         ELSE [status |-> "Sufficient", keep_fresh |-> kf]

\* Whether a need_peers call reads the clock a second time (line 135).
ReadsClockTwice ==
    /\ DOMAIN peer_list # {}
    /\ SaturatingDiff(now, keep_fresh) > peer_refresh_interval

need_peers ==
    \E d \in 0..1 :
        /\ now + d <= MaxTime
        /\ d = 1 => ReadsClockTwice
        /\ LET out == need_peers_outcome(peer_list, keep_fresh, peer_refresh_interval,
                                         max_simultaneous_peers, now, now + d)
           IN /\ ret_status' = out.status
              /\ keep_fresh' = out.keep_fresh
              /\ last_stale' = IF out.status = "Stale"
                                THEN [prev |-> last_stale.last, last |-> now + d]
                                ELSE last_stale
        /\ now' = now + d
        /\ ret_peers' = << >>
        /\ UNCHANGED <<peer_list, max_simultaneous_peers, peer_refresh_interval>>
        /\ op' = Call("need_peers", None)

\* IteratorRandom::choose_multiple(rng, amount): every vector the reservoir can
\* hold at the end, over all outcomes of the draws. The first `amount` items fill
\* the reservoir in order; the item at position idx (counted from 1) then draws
\* k in 0..idx-1 and replaces slot k when k < amount.
RECURSIVE ReservoirFill(_, _, _, _)
ReservoirFill(items, amount, idx, S) ==
    IF idx > Len(items) THEN S
    ELSE ReservoirFill(items, amount, idx + 1,
            {IF k < amount THEN [r EXCEPT ![k + 1] = items[idx]] ELSE r :
                r \in S, k \in 0..(idx - 1)})

choose_multiple(items, amount) ==
    LET n == Len(items)
        reservoir == SubSeq(items, 1, IF amount < n THEN amount ELSE n)
    IN IF Len(reservoir) = amount
       THEN ReservoirFill(items, amount, amount + 1, {reservoir})
       ELSE {reservoir}

\* qualified_peers that collects every Reliable peer instead of drawing up_to of them.
qualified_list_all_reliable(pl, up_to) ==
    LET peers == FilterKeys(pl, {"Reliable"})
        missing == SaturatingSub(up_to, Len(peers))
    IN IF missing > 0
       THEN {peers \o better_than_nothing :
               better_than_nothing \in
                   choose_multiple(FilterKeys(pl, {"Unreliable", "Unknown"}), missing)}
       ELSE {peers}

\* qualified_peers whose second pool leaves the Unknown peers out.
qualified_list_unreliable_only(pl, up_to) ==
    UNION { LET missing == SaturatingSub(up_to, Len(peers))
            IN IF missing > 0
               THEN {peers \o better_than_nothing :
                       better_than_nothing \in
                           choose_multiple(FilterKeys(pl, {"Unreliable"}), missing)}
               ELSE {peers}
            : peers \in choose_multiple(FilterKeys(pl, {"Reliable"}), up_to) }

\* PeerList::qualified_peers: every vector the call can return.
qualified_list(pl, up_to) ==
    UNION { LET missing == SaturatingSub(up_to, Len(peers))
            IN IF missing > 0
               THEN {peers \o better_than_nothing :
                       better_than_nothing \in
                           choose_multiple(FilterKeys(pl, {"Unreliable", "Unknown"}), missing)}
               ELSE {peers}
            : peers \in choose_multiple(FilterKeys(pl, {"Reliable"}), up_to) }

\* qualified_peers that counts as a refresh check: it resets keep_fresh.
qualified_peers_resets_stamp ==
    /\ ret_status' = "None"
    /\ ret_peers' \in qualified_list(peer_list, max_simultaneous_peers)
    /\ keep_fresh' = now
    /\ UNCHANGED <<peer_list, max_simultaneous_peers,
                   peer_refresh_interval, now, last_stale>>
    /\ op' = Call("qualified_peers", None)

qualified_peers ==
    /\ ret_status' = "None"
    /\ ret_peers' \in qualified_list(peer_list, max_simultaneous_peers)
    /\ UNCHANGED <<peer_list, keep_fresh, max_simultaneous_peers,
                   peer_refresh_interval, now, last_stale>>
    /\ op' = Call("qualified_peers", None)

Next ==
    \/ Tick
    \/ \E peer \in NodeIds : register_peer(peer)
    \/ dishonest_peers
    \/ flush
    \/ flush_dishonest_peers
    \/ \E peer \in NodeIds \cup {None} : disqualify_peer(peer)
    \/ \E peer \in NodeIds \cup {None} : promote_peer(peer)
    \/ \E peer \in NodeIds \cup {None} : demote_peer(peer)
    \/ need_peers
    \/ qualified_peers

Spec == Init /\ [][Next]_vars

\* ------------------------------------------------- unbounded time (liveness)

\* A reading of the clock after the origin of the time axis has moved one unit
\* forward: need_peers reads only differences of readings, so a reading that
\* falls before the origin is kept at the origin (keep_fresh) or forgotten (history).
ShiftStamp(t) == IF t > 0 THEN t - 1 ELSE 0

ShiftHistory(t) == IF t > 0 THEN t - 1 ELSE -1

\* The clock advances once the window 0..MaxTime is used up: the origin moves
\* instead of the reading.
TickShifted ==
    /\ now = MaxTime
    /\ keep_fresh' = ShiftStamp(keep_fresh)
    /\ last_stale' = [prev |-> ShiftHistory(last_stale.prev),
                      last |-> ShiftHistory(last_stale.last)]
    /\ UNCHANGED <<peer_list, max_simultaneous_peers, peer_refresh_interval,
                   now, op, ret_status, ret_peers>>

NextLive ==
    \/ Next
    \/ TickShifted

\* The clock keeps advancing and the control loop keeps calling need_peers.
LiveSpec ==
    /\ Init
    /\ [][NextLive]_vars
    /\ WF_vars(Tick \/ TickShifted)
    /\ WF_vars(need_peers)

\* ------------------------------------------------------------------ claims

\* Peer p has an entry of quality q.
Holds(p, q) == p \in DOMAIN peer_list /\ peer_list[p] = q

\* Peer p has an entry of quality q after the step.
HoldsNext(p, q) == p \in DOMAIN peer_list' /\ peer_list'[p] = q

\* The peer the call of the step names, if it names one.
Named == {op'.peer} \cap NodeIds

\* The transition table of section 4.1.
PromoteTable ==
    [Unknown |-> "Unreliable", Unreliable |-> "Reliable",
     Reliable |-> "Reliable", Dishonest |-> "Dishonest"]

DemoteTable ==
    [Unknown |-> "Unknown", Unreliable |-> "Unknown",
     Reliable |-> "Unreliable", Dishonest |-> "Dishonest"]

\* C1: for every peer present in the ledger, a promote call leaves it at the
\* quality the promote column of the table gives for its quality before the
\* call, and a demote call at the quality the demote column gives: one rung at
\* most, never two.
C1_OneRungTable ==
    [][\A p \in Named :
          p \in DOMAIN peer_list =>
              /\ promote_peer(p) => HoldsNext(p, PromoteTable[peer_list[p]])
              /\ demote_peer(p) => HoldsNext(p, DemoteTable[peer_list[p]])]_vars

\* C1 witness: a demote call has taken a Reliable peer to Unreliable.
C1_Witness ==
    /\ op.name = "demote_peer"
    /\ op.before = "Reliable"
    /\ Holds(op.peer, "Unreliable")

\* C2: a promote or demote call on a peer whose quality is Dishonest leaves it
\* Dishonest (so any number of such calls, in any order, does).
C2_DishonestAbsorbing ==
    [][\A p \in Named :
          (Holds(p, "Dishonest") /\ (promote_peer(p) \/ demote_peer(p)))
              => HoldsNext(p, "Dishonest")]_vars

\* C2 witness: a promote call was made on a Dishonest peer, which still is.
C2_Witness ==
    /\ op.name = "promote_peer"
    /\ op.before = "Dishonest"
    /\ Holds(op.peer, "Dishonest")

Good(p) == p \in DOMAIN peer_list /\ peer_list[p] \in {"Unknown", "Unreliable", "Reliable"}

\* C3 as stated: once an identifier holds Dishonest, it never afterwards holds
\* Unknown, Unreliable or Reliable, whatever operations follow.
C3_Original ==
    \A p \in NodeIds : [](Holds(p, "Dishonest") => [](~Good(p)))

\* C3 as amended: no operation changes a Dishonest entry to another quality. After
\* any step a Dishonest entry is still Dishonest or has been removed, and only
\* flush and flush_dishonest_peers remove it.
C3_DishonestUntilFlushed ==
    [][\A p \in NodeIds :
          Holds(p, "Dishonest") =>
              \/ HoldsNext(p, "Dishonest")
              \/ /\ p \notin DOMAIN peer_list'
                 /\ flush \/ flush_dishonest_peers]_vars

\* C3 witness: register was called on a Dishonest peer, which still is.
C3_Witness ==
    /\ op.name = "register_peer"
    /\ op.before = "Dishonest"
    /\ Holds(op.peer, "Dishonest")

\* C4: a disqualify call on a peer leaves it Dishonest whatever it was before; an
\* entry becomes Dishonest only by a disqualify call on that peer; register,
\* promote and demote on a peer that is not Dishonest never leave it Dishonest.
C4_OnlyDisqualifyMakesDishonest ==
    [][/\ \A p \in Named :
             /\ disqualify_peer(p) => HoldsNext(p, "Dishonest")
             /\ (~Holds(p, "Dishonest")
                    /\ (register_peer(p) \/ promote_peer(p) \/ demote_peer(p)))
                   => (p \in DOMAIN peer_list' => Good(p)')
       /\ \A p \in NodeIds :
             (HoldsNext(p, "Dishonest") /\ ~Holds(p, "Dishonest")) => disqualify_peer(p)]_vars

\* C4 witness: disqualify was called on a peer with no entry, which is now Dishonest.
C4_Witness ==
    /\ op.name = "disqualify_peer"
    /\ op.before = "Absent"
    /\ Holds(op.peer, "Dishonest")

\* The peers of the given qualities.
PeersAt(qs) == {p \in DOMAIN peer_list : peer_list[p] \in qs}

Distinct(s) == \A i, j \in 1..Len(s) : i # j => s[i] # s[j]

Smaller(a, b) == IF a < b THEN a ELSE b

\* C5: whatever the draws, the vector qualified_peers returns has at most
\* max_simultaneous_peers entries, no peer twice, and no Dishonest peer.
C5_QualifiedBounded ==
    op.name = "qualified_peers" =>
        /\ Len(ret_peers) <= max_simultaneous_peers
        /\ Distinct(ret_peers)
        /\ \A i \in 1..Len(ret_peers) : ~Holds(ret_peers[i], "Dishonest")

\* C5 witness: qualified_peers returned a full vector while the ledger held a
\* Dishonest peer.
C5_Witness ==
    /\ op.name = "qualified_peers"
    /\ max_simultaneous_peers >= 1
    /\ Len(ret_peers) = max_simultaneous_peers
    /\ PeersAt({"Dishonest"}) # {}

\* C6: with N the desired count and R the Reliable peers: if R has at least N
\* peers the result is N distinct Reliable peers; otherwise it is all of R followed
\* by min(N - |R|, |pool|) distinct peers of the Unreliable/Unknown pool. So its
\* length is min(N, number of peers that are not Dishonest), and it holds a
\* lower-tier peer only when it holds every Reliable peer.
C6_QualifiedTiered ==
    op.name = "qualified_peers" =>
        LET N == max_simultaneous_peers
            R == PeersAt({"Reliable"})
            pool == PeersAt({"Unreliable", "Unknown"})
            r == Cardinality(R)
            got == Range(ret_peers)
        IN /\ Distinct(ret_peers)
           /\ IF r >= N
              THEN Len(ret_peers) = N /\ got \subseteq R
              ELSE /\ Len(ret_peers) = r + Smaller(N - r, Cardinality(pool))
                   /\ Range(SubSeq(ret_peers, 1, r)) = R
                   /\ Range(SubSeq(ret_peers, r + 1, Len(ret_peers))) \subseteq pool
           /\ Len(ret_peers) = Smaller(N, Cardinality(PeersAt({"Unknown", "Unreliable", "Reliable"})))
           /\ got \cap pool # {} => R \subseteq got

\* C6 witness: the only Reliable peer was returned first, and the second slot
\* was filled from the lower tier.
C6_Witness ==
    /\ op.name = "qualified_peers"
    /\ Cardinality(PeersAt({"Reliable"})) = 1
    /\ Len(ret_peers) = 2
    /\ Holds(ret_peers[1], "Reliable")
    /\ ret_peers[2] \in PeersAt({"Unreliable", "Unknown"})

\* C7: on a non-empty ledger need_peers returns Stale exactly when the time since
\* the last refresh check exceeds the refresh interval and fewer peers than
\* max_simultaneous_peers are Reliable or Unknown; otherwise it returns Sufficient.
C7_StaleExactly ==
    [][(need_peers /\ DOMAIN peer_list # {}) =>
          LET due == now - keep_fresh > peer_refresh_interval
              few == Cardinality(PeersAt({"Reliable", "Unknown"})) < max_simultaneous_peers
          IN IF due /\ few THEN ret_status' = "Stale" ELSE ret_status' = "Sufficient"]_vars

\* C7 witness: need_peers returned Stale although the ledger holds as many peers
\* as desired, none of them Reliable or Unknown.
C7_Witness ==
    /\ op.name = "need_peers"
    /\ ret_status = "Stale"
    /\ max_simultaneous_peers >= 1
    /\ Cardinality(DOMAIN peer_list) >= max_simultaneous_peers
    /\ PeersAt({"Unreliable"}) # {}

\* C8: need_peers returns Insufficient if and only if the ledger is empty,
\* whatever the time elapsed since the last refresh check.
C8_InsufficientIffEmpty ==
    op.name = "need_peers" => (ret_status = "Insufficient" <=> DOMAIN peer_list = {})

\* C8 witness: need_peers returned Insufficient on an empty ledger with more than
\* the refresh interval elapsed since the last refresh check.
C8_Witness ==
    /\ op.name = "need_peers"
    /\ ret_status = "Insufficient"
    /\ DOMAIN peer_list = {}
    /\ now - keep_fresh > peer_refresh_interval

\* C9: between two need_peers calls that return Stale, more than one refresh
\* interval of clock time has elapsed.
C9_StaleThrottled ==
    last_stale.prev >= 0 => last_stale.last - last_stale.prev > peer_refresh_interval

\* C9 witness: need_peers has returned Stale for the second time.
C9_Witness ==
    /\ op.name = "need_peers"
    /\ ret_status = "Stale"
    /\ last_stale.prev >= 0

\* The pool has decayed: the ledger is not empty and fewer peers than desired
\* are Reliable or Unknown.
Decay ==
    /\ DOMAIN peer_list # {}
    /\ Cardinality(PeersAt({"Reliable", "Unknown"})) < max_simultaneous_peers

\* The last call was a need_peers that returned Stale.
StaleReturned == op.name = "need_peers" /\ ret_status = "Stale"

\* The last call was a register_peer that inserted a new peer.
InsertingRegister == op.name = "register_peer" /\ op.before = "Absent"

\* C10 as stated: if from some point on the pool stays decayed then, the clock
\* advancing and need_peers being called again and again, need_peers returns
\* Stale (again and again), whatever other operations are interleaved.
C10_Original == <>[]Decay => []<>StaleReturned

\* C10 as amended: the same, provided that from some point on no register_peer
\* call inserts a new peer (each insertion restarts the refresh interval).
C10_DecayDetected == <>[](Decay /\ ~InsertingRegister) => []<>StaleReturned

\* C10 witness: need_peers returned Stale on a pool that decayed through a
\* disqualification.
C10_Witness ==
    /\ StaleReturned
    /\ Decay
    /\ PeersAt({"Dishonest"}) # {}
    /\ PeersAt({"Reliable", "Unknown"}) # {}

\* C11: register_peer on a peer that has an entry, of whatever quality, leaves the
\* whole ledger as it was; on a peer without one it adds exactly that entry, at
\* Unknown, and leaves the others as they were.
C11_RegisterIdempotent ==
    [][\A p \in Named :
          register_peer(p) =>
              IF p \in DOMAIN peer_list
              THEN peer_list' = peer_list
              ELSE /\ DOMAIN peer_list' = (DOMAIN peer_list) \cup {p}
                   /\ peer_list'[p] = "Unknown"
                   /\ \A q \in DOMAIN peer_list : peer_list'[q] = peer_list[q]]_vars

\* C11 witness: register_peer was called on a Reliable peer, which still is.
C11_Witness ==
    /\ op.name = "register_peer"
    /\ op.before = "Reliable"
    /\ Holds(op.peer, "Reliable")

\* C12: flush_dishonest_peers removes exactly the entries that are Dishonest and
\* leaves every other entry with its quality; after it dishonest_peers has
\* nothing to return.
C12_FlushDishonestExact ==
    [][flush_dishonest_peers =>
          /\ DOMAIN peer_list' = {k \in DOMAIN peer_list : peer_list[k] # "Dishonest"}
          /\ \A k \in DOMAIN peer_list' : peer_list'[k] = peer_list[k]
          /\ dishonest_list(peer_list') = << >>]_vars

\* C12 witness: flush_dishonest_peers removed a Dishonest entry and left another
\* entry in place.
C12_Witness ==
    /\ op.name = "flush_dishonest_peers"
    /\ DOMAIN op.removed # {}
    /\ DOMAIN peer_list # {}

\* C13: flush leaves the ledger empty whatever it held; a dishonest_peers call
\* right after it returns nothing and a need_peers call right after it returns
\* Insufficient.
C13_FlushClearsAll ==
    [][/\ flush => (DOMAIN peer_list' = {} /\ dishonest_list(peer_list') = << >>)
       /\ (op.name = "flush" /\ dishonest_peers) => ret_peers' = << >>
       /\ (op.name = "flush" /\ need_peers) => ret_status' = "Insufficient"]_vars

\* C13 witness: flush removed entries of mixed quality, a Dishonest one among them.
C13_Witness ==
    /\ op.name = "flush"
    /\ DOMAIN peer_list = {}
    /\ \E k \in DOMAIN op.removed : op.removed[k] = "Dishonest"
    /\ \E k \in DOMAIN op.removed : op.removed[k] # "Dishonest"

\* C14: qualified_peers and dishonest_peers change neither the ledger nor the
\* last-refresh-check timestamp nor the configuration.
C14_QueriesPure ==
    [][op'.name \in {"qualified_peers", "dishonest_peers"} =>
          UNCHANGED <<peer_list, keep_fresh, max_simultaneous_peers,
                      peer_refresh_interval>>]_vars

\* C14 witness: qualified_peers returned peers and the timestamp still lies in
\* the past.
C14_Witness ==
    /\ op.name = "qualified_peers"
    /\ ret_peers # << >>
    /\ keep_fresh < now

\* C15: dishonest_peers returns exactly the peers whose quality is Dishonest,
\* each once, in ascending order.
C15_DishonestListed ==
    op.name = "dishonest_peers" =>
        /\ Range(ret_peers) = PeersAt({"Dishonest"})
        /\ \A i, j \in 1..Len(ret_peers) : i < j => ret_peers[i] < ret_peers[j]

\* C15 witness: dishonest_peers returned one peer and left out a peer that
\* is not Dishonest.
C15_Witness ==
    /\ op.name = "dishonest_peers"
    /\ Len(ret_peers) = 1
    /\ Cardinality(DOMAIN peer_list) > 1

\* C16 as stated: after every register_peer call the timestamp equals the
\* current time.
C16_Original ==
    [][\A p \in Named : register_peer(p) => keep_fresh' = now']_vars

\* C16: register_peer on a peer without an entry sets the timestamp to the
\* current time, and a need_peers call made no more than one refresh interval
\* after such a call does not return Stale; register_peer on a peer that has an
\* entry leaves the timestamp as it was.
C16_RegisterResetsWhenInserting ==
    [][/\ \A p \in Named :
            register_peer(p) =>
                IF p \in DOMAIN peer_list
                THEN keep_fresh' = keep_fresh
                ELSE keep_fresh' = now'
       /\ (InsertingRegister /\ need_peers
              /\ SaturatingDiff(now, keep_fresh) <= peer_refresh_interval)
            => ret_status' # "Stale"]_vars

\* C16 witness: register_peer was called on a peer that had an entry, and the
\* timestamp still lies in the past.
C16_Witness ==
    /\ op.name = "register_peer"
    /\ op.before = "Unknown"
    /\ keep_fresh < now

\* C17 as stated: a need_peers call made when more than the interval has elapsed
\* resets the timestamp to the current time, whatever the ledger holds.
C17_Original ==
    [][need_peers =>
          /\ (SaturatingDiff(now, keep_fresh) > peer_refresh_interval
                => keep_fresh' = now')
          /\ (SaturatingDiff(now, keep_fresh) <= peer_refresh_interval
                => keep_fresh' = keep_fresh)
          /\ peer_list' = peer_list]_vars

\* C17: a need_peers call on a non-empty ledger, made when more than the
\* interval has elapsed, resets the timestamp to the current time whether it
\* returns Stale or Sufficient; a call made when no more than the interval has
\* elapsed, or on an empty ledger (which returns Insufficient), leaves the
\* timestamp as it was. need_peers never changes the ledger.
C17_NeedPeersResetsWhenDue ==
    [][need_peers =>
          /\ (DOMAIN peer_list # {}
                /\ SaturatingDiff(now, keep_fresh) > peer_refresh_interval)
              => (keep_fresh' = now' /\ ret_status' \in {"Stale", "Sufficient"})
          /\ (DOMAIN peer_list # {}
                /\ SaturatingDiff(now, keep_fresh) <= peer_refresh_interval)
              => (keep_fresh' = keep_fresh /\ ret_status' = "Sufficient")
          /\ DOMAIN peer_list = {}
              => (keep_fresh' = keep_fresh /\ ret_status' = "Insufficient")
          /\ peer_list' = peer_list]_vars

\* C17 witness: need_peers returned Sufficient on a due check and the timestamp
\* was reset to the current time.
C17_Witness ==
    /\ op.name = "need_peers"
    /\ ret_status = "Sufficient"
    /\ keep_fresh = now
    /\ now > peer_refresh_interval
    /\ last_stale.last < now

\* C18: on a peer without an entry, promote_peer inserts it at Unknown,
\* demote_peer creates no entry, and disqualify_peer inserts it at Dishonest.
C18_AbsentDefaults ==
    (op.peer \in NodeIds /\ op.before = "Absent") =>
        /\ op.name = "promote_peer" => Holds(op.peer, "Unknown")
        /\ op.name = "demote_peer" => op.peer \notin DOMAIN peer_list
        /\ op.name = "disqualify_peer" => Holds(op.peer, "Dishonest")

\* C18 witness: promote_peer was called on a peer without an entry while another
\* peer had one, and the peer is now at Unknown.
C18_Witness ==
    /\ op.name = "promote_peer"
    /\ op.before = "Absent"
    /\ Holds(op.peer, "Unknown")
    /\ Cardinality(DOMAIN peer_list) > 1

\* The step is recorded as a call of one of the named operations on peer p.
CalledOn(names, p) == op'.name \in names /\ op'.peer = p

\* C19: the ledger starts empty; a key is added only by a register_peer,
\* promote_peer or disqualify_peer call that names it, and a key is removed only
\* by flush or, when its entry is Dishonest, by flush_dishonest_peers. A
\* demote_peer, need_peers, qualified_peers or dishonest_peers call leaves the
\* key set as it was.
C19_KeySetChanges ==
    /\ DOMAIN peer_list = {}
    /\ [][/\ \A p \in (DOMAIN peer_list') \ (DOMAIN peer_list) :
               CalledOn({"register_peer", "promote_peer", "disqualify_peer"}, p)
          /\ \A p \in (DOMAIN peer_list) \ (DOMAIN peer_list') :
               \/ op'.name = "flush"
               \/ op'.name = "flush_dishonest_peers" /\ Holds(p, "Dishonest")
          /\ op'.name \in {"demote_peer", "need_peers", "qualified_peers",
                           "dishonest_peers"}
               => DOMAIN peer_list' = DOMAIN peer_list]_vars

\* C19 witness: demote_peer was called on a peer at Unknown, which kept its
\* entry.
C19_Witness ==
    /\ op.name = "demote_peer"
    /\ op.before = "Unknown"
    /\ Holds(op.peer, "Unknown")

\* C20: promote_peer, demote_peer and disqualify_peer leave every other peer's
\* entry, the timestamp and the configuration as they were; flush and
\* flush_dishonest_peers leave the timestamp and the configuration as they
\* were; a call without a peer changes none of them.
C20_Frame ==
    [][/\ \A p \in Named :
            CalledOn({"promote_peer", "demote_peer", "disqualify_peer"}, p) =>
                /\ \A q \in NodeIds \ {p} :
                      /\ q \in DOMAIN peer_list' <=> q \in DOMAIN peer_list
                      /\ q \in DOMAIN peer_list => peer_list'[q] = peer_list[q]
                /\ UNCHANGED <<keep_fresh, max_simultaneous_peers,
                               peer_refresh_interval>>
       /\ op'.name \in {"flush", "flush_dishonest_peers"} =>
             UNCHANGED <<keep_fresh, max_simultaneous_peers, peer_refresh_interval>>
       /\ CalledOn({"promote_peer", "demote_peer", "disqualify_peer"}, None) =>
             UNCHANGED <<peer_list, keep_fresh, max_simultaneous_peers,
                         peer_refresh_interval>>]_vars

\* C20 witness: disqualify_peer was called on one peer while another was
\* Reliable, which it still is, and the timestamp lies in the past.
C20_Witness ==
    /\ op.name = "disqualify_peer"
    /\ Holds(op.peer, "Dishonest")
    /\ \E q \in NodeIds \ {op.peer} : Holds(q, "Reliable")
    /\ keep_fresh < now
====
